---- MODULE Spec2Model ----
(***************************************************************************)
(* Model of beartype's strong LRU cache, LRUCacheStrong                    *)
(* (beartype/_util/cache/utilcachelru.py): a dict subclass whose insertion *)
(* order is the recency order, least recently used first.                  *)
(*                                                                         *)
(* The dictionary is a sequence of [key, value] records in insertion       *)
(* order.  Each dunder method is one action; the dict primitives it calls  *)
(* are operators on that sequence.                                         *)
(***************************************************************************)
EXTENDS Integers, Sequences, FiniteSets, TLC

\* ------------------------------------------------------------- bounds ----
\* Largest capacity a cache is constructed with.
MaxSize == 3

\* ------------------------------------------------------------- inputs ----
\* Hashable keys: one more than the largest capacity, so that a full cache
\* always has an absent key left to put.
HashableKeys == 1 .. (MaxSize + 1)

\* A key whose hash() raises TypeError (a list, a dict, ...).
UnhashableKeys == {0}

Keys == HashableKeys \cup UnhashableKeys

\* Cached values are opaque to the cache: two of them tell a replaced value
\* from the one it replaces.
Values == {1, 2}

\* "No value": the None returned by __setitem__, and the absence of a value.
NoValue == 0

\* Objects passed as the "size" parameter of __init__, each with its Python
\* type.  A float or str carries the number it denotes (2.0, "2").
SizeArgs ==
    {[type |-> "int", val |-> n] : n \in -1 .. MaxSize}
        \cup {[type |-> "bool", val |-> b] : b \in {0, 1}}
        \cup {[type |-> "float", val |-> 2], [type |-> "str", val |-> 2],
              [type |-> "NoneType", val |-> 0]}

\* isinstance(size, int): bool is a subclass of int.
IsInstanceInt(obj) == obj.type \in {"int", "bool"}

\* -------------------------------------------------------------- state ----
VARIABLES
    constructed,    \* TRUE once __init__ has returned normally
    size,           \* self._size
    items,          \* the dict itself: <<[key, value], ...>>, oldest first
    call,           \* the last call made: [op, key, value, size]
    result,         \* its outcome: [exc, val]
    before,         \* the dict as it was when the last call began
    lastPut,        \* history: key -> value of the latest __setitem__ of it
    useOrder,       \* history: the keys ever cached or read, ordered by
                    \*   their latest __setitem__ or successful __getitem__
    putLog,         \* history: keys put so far, while every call has been a
                    \*   __setitem__ of a key not put before
    putsOnly,       \* history: TRUE while putLog is the whole call history
    lruRead         \* history: progress of "read the least recently used
                    \*   key of a full cache, then put an absent key"

vars == <<constructed, size, items, call, result, before,
          lastPut, useOrder, putLog, putsOnly, lruRead>>

\* --------------------------------------------------- dict primitives ----
\* hash(key) succeeds.
IsHashable(key) == key \in HashableKeys

DictKeys(d) == {d[i].key : i \in DOMAIN d}

\* Position of key in d (key is present).
DictIndex(d, key) == CHOOSE i \in DOMAIN d : d[i].key = key

\* The keys of d in iteration order.
DictKeySeq(d) == [i \in DOMAIN d |-> d[i].key]

\* dict.__contains__
DictHasItem(d, key) == key \in DictKeys(d)

\* dict.__getitem__ of a present key
DictGetItem(d, key) == d[DictIndex(d, key)].value

\* dict.__delitem__ of a present key: later entries keep their order.
DictDelItem(d, key) == SelectSeq(d, LAMBDA e : e.key # key)

\* Mutant: a new key goes to the head.
DictSetItemAtHead(d, key, value) ==
    IF DictHasItem(d, key)
    THEN [d EXCEPT ![DictIndex(d, key)].value = value]
    ELSE <<[key |-> key, value |-> value]>> \o d

\* dict.__setitem__: a new key goes to the tail, a present key keeps its
\* position and only has its value replaced.
DictSetItem(d, key, value) ==
    IF DictHasItem(d, key)
    THEN [d EXCEPT ![DictIndex(d, key)].value = value]
    ELSE Append(d, [key |-> key, value |-> value])

\* dict.__len__
DictLen(d) == Len(d)

\* Mutant: the last key, as next(reversed(d)) gives.
DictIterLast(d) == d[Len(d)].key

\* next(dict.__iter__(d)) of a non-empty dict: the first key.
DictIterNext(d) == d[1].key

\* ------------------------------------------------------ call outcomes ----
Returned(v) == [exc |-> "none", val |-> v]
Raised(e) == [exc |-> e, val |-> NoValue]

NoArg == [type |-> "none", val |-> 0]
NoCall == [op |-> "none", key |-> 0, value |-> NoValue, size |-> NoArg]
NoRead == [stage |-> "none", key |-> 0, next |-> 0]

\* seq with every occurrence of x removed, then x appended.
MoveToEnd(seq, x) == Append(SelectSeq(seq, LAMBDA y : y # x), x)

\* The keys present in dict d, ordered by their latest use as recorded in
\* order: least recently used first.
ByRecency(d, order) == SelectSeq(order, LAMBDA k : k \in DictKeys(d))

Init ==
    /\ constructed = FALSE
    /\ size = 0
    /\ items = <<>>
    /\ call = NoCall
    /\ result = Returned(NoValue)
    /\ before = <<>>
    /\ lastPut = [k \in HashableKeys |-> NoValue]
    /\ useOrder = <<>>
    /\ putLog = <<>>
    /\ putsOnly = TRUE
    /\ lruRead = NoRead

\* ----------------------------------------------------------- __init__ ----
\* Mutant: the second validation tests "size < 0", letting capacity 0 in.
InitRaisesNegativeOnly(sizeArg) ==
    IF ~IsInstanceInt(sizeArg) THEN TRUE
    ELSE sizeArg.val < 0

\* The two validations of __init__: TRUE when it raises.
InitRaises(sizeArg) ==
    IF ~IsInstanceInt(sizeArg) THEN TRUE
    ELSE sizeArg.val <= 0

Construct(sizeArg) ==
    /\ ~constructed
    /\ call' = [NoCall EXCEPT !.op = "init", !.size = sizeArg]
    /\ before' = <<>>
    /\ IF InitRaises(sizeArg)
       THEN /\ result' = Raised("_BeartypeUtilLRUCacheException")
            /\ UNCHANGED <<constructed, size, items>>
       ELSE /\ result' = Returned(NoValue)
            /\ constructed' = TRUE
            /\ size' = sizeArg.val
            /\ items' = <<>>
    /\ UNCHANGED <<lastPut, useOrder, putLog, putsOnly, lruRead>>

\* -------------------------------------------------------- __getitem__ ----
\* Mutant: the key is not prioritized (neither deleted nor re-added).
GetItemDictNoRefresh(d, key) == d

\* Mutant: the key is deleted and never re-added.
GetItemDictDeleteOnly(d, key) == DictDelItem(d, key)

\* The dict after a __getitem__ of a present key: delete, then re-add.
GetItemDict(d, key) ==
    LET value == DictGetItem(d, key)
    IN  DictSetItem(DictDelItem(d, key), key, value)

\* Mutant: the inherited dict.__getitem__, which returns the value and
\* leaves the dict alone.
GetItemOutcomePlainDict(d, key) ==
    IF ~IsHashable(key)
    THEN [result |-> Raised("TypeError"), dict |-> d]
    ELSE IF ~DictHasItem(d, key)
    THEN [result |-> Raised("KeyError"), dict |-> d]
    ELSE [result |-> Returned(DictGetItem(d, key)), dict |-> d]

\* Mutant: the value is fetched with a default (dict.pop(key, None)) and
\* re-added, so that a miss returns None and caches the key.
GetItemOutcomeInsertsOnMiss(d, key) ==
    IF ~IsHashable(key)
    THEN [result |-> Raised("TypeError"), dict |-> d]
    ELSE IF ~DictHasItem(d, key)
    THEN [result |-> Returned(NoValue),
          dict |-> DictSetItem(d, key, NoValue)]
    ELSE [result |-> Returned(DictGetItem(d, key)),
          dict |-> DictSetItem(DictDelItem(d, key), key, DictGetItem(d, key))]

\* Outcome of __getitem__ on dict d: what it returns or raises, and the
\* dict it leaves.  dict.__getitem__ hashes the key before it looks it up.
GetItemOutcome(d, key) ==
    IF ~IsHashable(key)
    THEN [result |-> Raised("TypeError"), dict |-> d]
    ELSE IF ~DictHasItem(d, key)
    THEN [result |-> Raised("KeyError"), dict |-> d]
    ELSE [result |-> Returned(DictGetItem(d, key)),
          dict |-> GetItemDict(d, key)]

GetItem(key) ==
    LET out == GetItemOutcome(items, key)
    IN  /\ constructed
        /\ call' = [NoCall EXCEPT !.op = "get", !.key = key]
        /\ before' = items
        /\ result' = out.result
        /\ items' = out.dict
        /\ useOrder' = IF out.result.exc = "none"
                       THEN MoveToEnd(useOrder, key)
                       ELSE useOrder
        /\ lruRead' =
             IF /\ out.result.exc = "none"
                /\ size >= 2
                /\ Len(items) = size
                /\ ByRecency(items, useOrder)[1] = key
             THEN [stage |-> "read", key |-> key,
                   next |-> ByRecency(items, useOrder)[2]]
             ELSE NoRead
        /\ putLog' = <<>>
        /\ putsOnly' = FALSE
        /\ UNCHANGED <<constructed, size, lastPut>>

\* -------------------------------------------------------- __setitem__ ----
\* Mutant: the capacity test is missing.
SetItemDictNoEvict(d, sz, key, value) ==
    LET removed == IF DictHasItem(d, key) THEN DictDelItem(d, key) ELSE d
    IN  DictSetItem(removed, key, value)

\* Mutant: a present key is not removed before it is set again, so that it
\* keeps its position.
SetItemDictNoRemove(d, sz, key, value) ==
    LET added == DictSetItem(d, key, value)
    IN  IF DictLen(added) > sz
        THEN DictDelItem(added, DictIterNext(added))
        ELSE added

\* Mutant: the capacity test is ">=", evicting as soon as the cache is full.
SetItemDictEvictAtSize(d, sz, key, value) ==
    LET removed == IF DictHasItem(d, key) THEN DictDelItem(d, key) ELSE d
        added == DictSetItem(removed, key, value)
    IN  IF DictLen(added) >= sz
        THEN DictDelItem(added, DictIterNext(added))
        ELSE added

\* The dict after a __setitem__ of a hashable key on a cache of capacity sz.
SetItemDict(d, sz, key, value) ==
    LET removed == IF DictHasItem(d, key) THEN DictDelItem(d, key) ELSE d
        added == DictSetItem(removed, key, value)
    IN  IF DictLen(added) > sz
        THEN DictDelItem(added, DictIterNext(added))
        ELSE added

\* Mutant: room is made for the new entry before the key is looked at.
SetItemOutcomeEvictFirst(d, sz, key, value) ==
    LET room == IF DictLen(d) >= sz /\ DictLen(d) > 0
                THEN DictDelItem(d, DictIterNext(d))
                ELSE d
    IN  IF ~IsHashable(key)
        THEN [result |-> Raised("TypeError"), dict |-> room]
        ELSE [result |-> Returned(NoValue),
              dict |-> DictSetItem(DictDelItem(room, key), key, value)]

\* Outcome of __setitem__: dict.__contains__ hashes the key first.
SetItemOutcome(d, sz, key, value) ==
    IF ~IsHashable(key)
    THEN [result |-> Raised("TypeError"), dict |-> d]
    ELSE [result |-> Returned(NoValue),
          dict |-> SetItemDict(d, sz, key, value)]

SetItem(key, value) ==
    LET out == SetItemOutcome(items, size, key, value)
        done == out.result.exc = "none"
    IN  /\ constructed
        /\ call' = [NoCall EXCEPT !.op = "put", !.key = key, !.value = value]
        /\ before' = items
        /\ result' = out.result
        /\ items' = out.dict
        /\ lastPut' = IF done THEN [lastPut EXCEPT ![key] = value]
                      ELSE lastPut
        /\ useOrder' = IF done THEN MoveToEnd(useOrder, key) ELSE useOrder
        /\ IF /\ putsOnly
              /\ done
              /\ \A i \in DOMAIN putLog : putLog[i] # key
           THEN /\ putLog' = Append(putLog, key)
                /\ putsOnly' = TRUE
           ELSE /\ putLog' = <<>>
                /\ putsOnly' = FALSE
        /\ lruRead' =
             IF /\ lruRead.stage = "read"
                /\ done
                /\ \A i \in DOMAIN items : items[i].key # key
             THEN [lruRead EXCEPT !.stage = "put"]
             ELSE NoRead
        /\ UNCHANGED <<constructed, size>>

\* ------------------------------------------------ unsynchronized calls ----
\* Two threads call __getitem__ and __setitem__ on one cache with no lock.
\* The interpreter may switch threads between any two calls of a dict
\* method, so each such call is one step and the steps of the two threads
\* interleave freely.
VARIABLES
    pc,             \* thread -> the statement it runs next
    frame,          \* thread -> its call and locals:
                    \*   [op, key, value, held, first, line]
    outcome,        \* thread -> what its call returned or raised
    start,          \* the dict as it was before either thread ran
    overlapped      \* history: TRUE once a thread has taken a step while
                    \*   the call of the other was under way

threadVars == <<pc, frame, outcome, start, overlapped>>

Threads == {1, 2}

NoFrame ==
    [op |-> "none", key |-> 0, value |-> NoValue, held |-> NoValue,
     first |-> 0, line |-> 0]

\* No thread ever runs: the state of the threads in a sequential run.
ThreadsIdle ==
    /\ pc = [t \in Threads |-> "idle"]
    /\ frame = [t \in Threads |-> NoFrame]
    /\ outcome = [t \in Threads |-> Returned(NoValue)]
    /\ start = <<>>
    /\ overlapped = FALSE

\* The dicts the threads start from: n <= sz keys put one after the other.
StartDicts(sz) ==
    {[i \in 1 .. n |-> [key |-> i, value |-> 1]] : n \in 0 .. sz}

\* A thread is inside a call: it has run a statement and has more to run.
Running(t) == pc[t] \notin {"idle", "done"}

\* Thread t takes a step: to statement next, with locals fr.
Goto(t, next, fr) ==
    /\ pc' = [pc EXCEPT ![t] = next]
    /\ frame' = [frame EXCEPT ![t] = fr]
    /\ overlapped' = (overlapped \/ \E u \in Threads \ {t} : Running(u))
    /\ UNCHANGED <<constructed, size, start>>

\* Thread t leaves its call with outcome res, raised (if at all) at line.
Leave(t, fr, res, line) ==
    /\ Goto(t, "done", [fr EXCEPT !.line = line])
    /\ outcome' = [outcome EXCEPT ![t] = res]

\* The entry Goto makes for a call that has just begun.
NewFrame(op, key, value) ==
    [NoFrame EXCEPT !.op = op, !.key = key, !.value = value]

\* Line 140: value = __dict_getitem(self, key)
GetLookup(t, key) ==
    LET fr == NewFrame("get", key, NoValue)
    IN  /\ pc[t] = "idle"
        /\ items' = items
        /\ IF ~IsHashable(key)
           THEN Leave(t, fr, Raised("TypeError"), 140)
           ELSE IF ~DictHasItem(items, key)
           THEN Leave(t, fr, Raised("KeyError"), 140)
           ELSE /\ Goto(t, "get_del",
                        [fr EXCEPT !.held = DictGetItem(items, key)])
                /\ outcome' = outcome

\* Line 144: __dict_delitem(self, key)
GetDelete(t) ==
    /\ pc[t] = "get_del"
    /\ IF DictHasItem(items, frame[t].key)
       THEN /\ items' = DictDelItem(items, frame[t].key)
            /\ Goto(t, "get_set", frame[t])
            /\ outcome' = outcome
       ELSE /\ items' = items
            /\ Leave(t, frame[t], Raised("KeyError"), 144)

\* Lines 145-148: __dict_setitem(self, key, value); return value
GetReAdd(t) ==
    /\ pc[t] = "get_set"
    /\ items' = DictSetItem(items, frame[t].key, frame[t].held)
    /\ Leave(t, frame[t], Returned(frame[t].held), 0)

\* Line 190: if __dict_hasitem(self, key)
PutContains(t, key, value) ==
    LET fr == NewFrame("put", key, value)
    IN  /\ pc[t] = "idle"
        /\ items' = items
        /\ IF ~IsHashable(key)
           THEN Leave(t, fr, Raised("TypeError"), 190)
           ELSE /\ Goto(t, IF DictHasItem(items, key)
                           THEN "put_del" ELSE "put_set", fr)
                /\ outcome' = outcome

\* Line 191: __dict_delitem(self, key)
PutDelete(t) ==
    /\ pc[t] = "put_del"
    /\ IF DictHasItem(items, frame[t].key)
       THEN /\ items' = DictDelItem(items, frame[t].key)
            /\ Goto(t, "put_set", frame[t])
            /\ outcome' = outcome
       ELSE /\ items' = items
            /\ Leave(t, frame[t], Raised("KeyError"), 191)

\* Line 194: __dict_setitem(self, key, value)
PutAdd(t) ==
    /\ pc[t] = "put_set"
    /\ items' = DictSetItem(items, frame[t].key, frame[t].value)
    /\ Goto(t, "put_len", frame[t])
    /\ outcome' = outcome

\* Mutant: the capacity test lets one entry too many through.
PutExceedsByTwo(d, sz) == DictLen(d) > sz + 1

\* Line 199: __dict_len(self) > self._size
PutExceeds(d, sz) == DictLen(d) > sz

\* Line 199: if __dict_len(self) > self._size
PutLen(t) ==
    /\ pc[t] = "put_len"
    /\ items' = items
    /\ IF PutExceeds(items, size)
       THEN Goto(t, "put_first", frame[t]) /\ outcome' = outcome
       ELSE Leave(t, frame[t], Returned(NoValue), 0)

\* Line 200, the argument: next(__dict_iter(self))
PutFirst(t) ==
    /\ pc[t] = "put_first"
    /\ items' = items
    /\ IF DictLen(items) = 0
       THEN Leave(t, frame[t], Raised("StopIteration"), 200)
       ELSE /\ Goto(t, "put_evict",
                    [frame[t] EXCEPT !.first = DictIterNext(items)])
            /\ outcome' = outcome

\* Line 200, the call: __dict_delitem(self, <first key>)
PutEvict(t) ==
    /\ pc[t] = "put_evict"
    /\ IF DictHasItem(items, frame[t].first)
       THEN /\ items' = DictDelItem(items, frame[t].first)
            /\ Leave(t, frame[t], Returned(NoValue), 0)
       ELSE /\ items' = items
            /\ Leave(t, frame[t], Raised("KeyError"), 200)

\* ---------------------------------------------------- generated checks ----
\* The code snippets of beartype/_decor/_code/_pep/_pepsnip.py are Python
\* expressions with format variables.  Each snippet is an operator from its
\* format variables to an expression tree, and Eval runs a tree the way
\* Python runs the expression: left to right, "and" and "or"
\* short-circuiting, an assignment expression binding its variable, any
\* operation raising what Python raises.

\* Longest list or tuple checked.
MaxLen == 3

\* Largest random integer drawn for a call.
MaxRandomInt == 4

\* ---- Python objects: [type, val, items, name] ----
PyObj(type, val, elems, name) ==
    [type |-> type, val |-> val, items |-> elems, name |-> name]

PyInt(n) == PyObj("int", n, <<>>, "")
PyBool(b) == PyObj("bool", IF b THEN 1 ELSE 0, <<>>, "")
PyFloat(n) == PyObj("float", n, <<>>, "")
\* A string of at most one character, val its code (0: the empty string).
PyStr(n) == PyObj("str", n, <<>>, "")
PyNone == PyObj("NoneType", 0, <<>>, "")
PyList(elems) == PyObj("list", 0, elems, "")
PyTuple(elems) == PyObj("tuple", 0, elems, "")
\* The class object of the class called name.
PyClass(name) == PyObj("type", 0, <<>>, name)

\* The value of a local variable not assigned yet.
Unbound == PyObj("<unbound>", 0, <<>>, "")

\* The classes a class inherits from, itself included (its MRO).
Mro(name) ==
    IF name = "bool" THEN {"bool", "int", "object"} ELSE {name, "object"}

\* isinstance(obj, classes), classes a class or tuple of classes.
IsInstanceOf(obj, classes) == Mro(obj.type) \cap classes # {}

\* bool(obj)
Truthy(obj) ==
    IF obj.type \in {"list", "tuple"} THEN Len(obj.items) > 0
    ELSE IF obj.type \in {"int", "bool", "float", "str"} THEN obj.val # 0
    ELSE obj.type # "NoneType"

\* obj has a length.
IsSized(obj) == obj.type \in {"list", "tuple", "str"}

\* len(obj) of a sized object.
PyLen(obj) ==
    IF obj.type = "str" THEN (IF obj.val = 0 THEN 0 ELSE 1)
    ELSE Len(obj.items)

\* obj[i] of a sized object, 0 <= i < len(obj).
PyItem(obj, i) == IF obj.type = "str" THEN obj ELSE obj.items[i + 1]

\* a == b
PyEq(a, b) ==
    IF a.type \in {"int", "bool", "float"}
    THEN b.type \in {"int", "bool", "float"} /\ a.val = b.val
    ELSE a = b

\* ---- expression trees: [op, n, names, obj, args] ----
Expr(op, n, names, obj, args) ==
    [op |-> op, n |-> n, names |-> names, obj |-> obj, args |-> args]

\* The expression yielding the pith under check (the root pith local).
ERoot == Expr("root", 0, {}, PyNone, <<>>)
\* The random integer local of the wrapper.
ERandomInt == Expr("random_int", 0, {}, PyNone, <<>>)
\* The pith variable of depth n.
EVar(n) == Expr("var", n, {}, PyNone, <<>>)
\* (<pith variable n> := e)
EAssign(n, e) == Expr("assign", n, {}, PyNone, <<e>>)
\* A literal object.
EConst(obj) == Expr("const", 0, {}, obj, <<>>)
EIsInstance(e, classes) == Expr("isinstance", 0, classes, PyNone, <<e>>)
EIsSubclass(e, classes) == Expr("issubclass", 0, classes, PyNone, <<e>>)
ENot(e) == Expr("not", 0, {}, PyNone, <<e>>)
ELen(e) == Expr("len", 0, {}, PyNone, <<e>>)
EEq(a, b) == Expr("eq", 0, {}, PyNone, <<a, b>>)
EMod(a, b) == Expr("mod", 0, {}, PyNone, <<a, b>>)
EIndex(a, b) == Expr("index", 0, {}, PyNone, <<a, b>>)
\* a1 and a2 and ... (at least one operand)
EAnd(args) == Expr("and", 0, {}, PyNone, args)
\* a1 or a2 or ... (at least one operand)
EOr(args) == Expr("or", 0, {}, PyNone, args)
\* a if cond else b
EIf(cond, a, b) == Expr("if", 0, {}, PyNone, <<cond, a, b>>)

\* The pith variables a check may bind.
PithVarNames == {1, 2, 3}

\* The state an expression runs in: the pith and random integer of the
\* call, the pith variables bound so far, and counts of how often the
\* pith's own expression was evaluated and of the == comparisons made.
EvalStart(p, r) ==
    [pith |-> p, randomInt |-> r,
     env |-> [n \in PithVarNames |-> Unbound], evals |-> 0, eqs |-> 0]

Ok(obj, st) == [exc |-> "none", val |-> obj, st |-> st]
Fail(exc, st) == [exc |-> exc, val |-> PyNone, st |-> st]

RECURSIVE Eval(_, _)
RECURSIVE EvalChain(_, _, _)

\* x1 op x2 op ... with op "and" (stop = FALSE) or "or" (stop = TRUE): the
\* first operand whose truth is stop, else the last one.
EvalChain(args, stop, st) ==
    LET r == Eval(Head(args), st)
    IN  IF r.exc # "none" THEN r
        ELSE IF Len(args) = 1 \/ Truthy(r.val) = stop THEN r
        ELSE EvalChain(Tail(args), stop, r.st)

Eval(e, st) ==
    IF e.op = "root"
    THEN Ok(st.pith, [st EXCEPT !.evals = @ + 1])
    ELSE IF e.op = "random_int" THEN Ok(PyInt(st.randomInt), st)
    ELSE IF e.op = "const" THEN Ok(e.obj, st)
    ELSE IF e.op = "var"
    THEN IF st.env[e.n] = Unbound
         THEN Fail("UnboundLocalError", st)
         ELSE Ok(st.env[e.n], st)
    ELSE IF e.op = "and" THEN EvalChain(e.args, FALSE, st)
    ELSE IF e.op = "or" THEN EvalChain(e.args, TRUE, st)
    ELSE IF e.op = "if"
    THEN LET c == Eval(e.args[1], st)
         IN  IF c.exc # "none" THEN c
             ELSE IF Truthy(c.val) THEN Eval(e.args[2], c.st)
             ELSE Eval(e.args[3], c.st)
    ELSE
    LET a == Eval(e.args[1], st)
    IN  IF a.exc # "none" THEN a
        ELSE IF e.op = "assign"
        THEN Ok(a.val, [a.st EXCEPT !.env[e.n] = a.val])
        ELSE IF e.op = "isinstance"
        THEN Ok(PyBool(IsInstanceOf(a.val, e.names)), a.st)
        ELSE IF e.op = "issubclass"
        THEN IF a.val.type # "type" THEN Fail("TypeError", a.st)
             ELSE Ok(PyBool(Mro(a.val.name) \cap e.names # {}), a.st)
        ELSE IF e.op = "not" THEN Ok(PyBool(~Truthy(a.val)), a.st)
        ELSE IF e.op = "len"
        THEN IF ~IsSized(a.val) THEN Fail("TypeError", a.st)
             ELSE Ok(PyInt(PyLen(a.val)), a.st)
        ELSE
        LET b == Eval(e.args[2], a.st)
        IN  IF b.exc # "none" THEN b
            ELSE IF e.op = "eq"
            THEN Ok(PyBool(PyEq(a.val, b.val)), [b.st EXCEPT !.eqs = @ + 1])
            ELSE IF e.op = "mod"
            THEN IF b.val.val = 0 THEN Fail("ZeroDivisionError", b.st)
                 ELSE Ok(PyInt(a.val.val % b.val.val), b.st)
            ELSE \* e.op = "index"
                 IF ~IsSized(a.val) THEN Fail("TypeError", b.st)
                 ELSE IF b.val.val >= PyLen(a.val)
                 THEN Fail("IndexError", b.st)
                 ELSE Ok(PyItem(a.val, b.val.val), b.st)

\* ---- the snippets ----
\* {pith_curr_var_name} := {pith_curr_expr}
PEP_CODE_PITH_ASSIGN_EXPR(pith_curr_var_name, pith_curr_expr) ==
    EAssign(pith_curr_var_name, pith_curr_expr)

\* isinstance({pith_curr_expr}, {hint_curr_expr})
PEP484_CODE_HINT_INSTANCE(pith_curr_expr, hint_curr_expr) ==
    EIsInstance(pith_curr_expr, hint_curr_expr)

\* The draft with a ternary conditional:
\* (isinstance({pith_curr_assign_expr}, {hint_curr_expr}) and
\*  {hint_child_placeholder} if {pith_curr_var_name} else True)
SequenceArgs1Ternary(pith_curr_assign_expr, hint_curr_expr, pith_curr_var_name, hint_child_placeholder) ==
    EIf(EVar(pith_curr_var_name),
        EAnd(<<EIsInstance(pith_curr_assign_expr, hint_curr_expr),
               hint_child_placeholder>>),
        EConst(PyBool(TRUE)))

\* (isinstance({pith_curr_assign_expr}, {hint_curr_expr}) and
\*  (not {pith_curr_var_name} or {hint_child_placeholder}))
PEP484585_CODE_HINT_SEQUENCE_ARGS_1(pith_curr_assign_expr, hint_curr_expr, pith_curr_var_name, hint_child_placeholder) ==
    EAnd(<<EIsInstance(pith_curr_assign_expr, hint_curr_expr),
           EOr(<<ENot(EVar(pith_curr_var_name)), hint_child_placeholder>>)>>)

\* Variant: always the first item.
SequencePithChildExprFirstItem(pith_curr_var_name) ==
    EIndex(EVar(pith_curr_var_name), EConst(PyInt(0)))

\* {pith_curr_var_name}[{VAR_NAME_RANDOM_INT} % len({pith_curr_var_name})]
PEP484585_CODE_HINT_SEQUENCE_ARGS_1_PITH_CHILD_EXPR(pith_curr_var_name) ==
    EIndex(EVar(pith_curr_var_name),
           EMod(ERandomInt, ELen(EVar(pith_curr_var_name))))

\* PEP484585_CODE_HINT_TUPLE_FIXED_PREFIX, _EMPTY and _SUFFIX, the last
\* " and" sliced off:
\* (isinstance({pith_curr_assign_expr}, tuple) and not {pith_curr_var_name})
PEP484585_CODE_HINT_TUPLE_FIXED_EMPTY(pith_curr_assign_expr, pith_curr_var_name) ==
    EAnd(<<EIsInstance(pith_curr_assign_expr, {"tuple"}),
           ENot(EVar(pith_curr_var_name))>>)

\* {pith_curr_var_name}[{pith_child_index}]
PEP484585_CODE_HINT_TUPLE_FIXED_NONEMPTY_PITH_CHILD_EXPR(pith_curr_var_name, pith_child_index) ==
    EIndex(EVar(pith_curr_var_name), EConst(PyInt(pith_child_index)))

\* Variant: no length test.
TupleFixedNonemptyNoLen(pith_curr_assign_expr, pith_curr_var_name, hint_childs_len, hint_child_placeholders) ==
    EAnd(<<EIsInstance(pith_curr_assign_expr, {"tuple"})>>
         \o hint_child_placeholders)

\* PEP484585_CODE_HINT_TUPLE_FIXED_PREFIX, _LEN, one _NONEMPTY_CHILD per
\* child and _SUFFIX, the last " and" sliced off:
\* (isinstance({pith_curr_assign_expr}, tuple) and
\*  len({pith_curr_var_name}) == {hint_childs_len} and
\*  {hint_child_placeholder} and ... and {hint_child_placeholder})
PEP484585_CODE_HINT_TUPLE_FIXED_NONEMPTY(pith_curr_assign_expr, pith_curr_var_name, hint_childs_len, hint_child_placeholders) ==
    EAnd(<<EIsInstance(pith_curr_assign_expr, {"tuple"}),
           EEq(ELen(EVar(pith_curr_var_name)), EConst(PyInt(hint_childs_len)))>>
         \o hint_child_placeholders)

\* Variant: issubclass() without the test for a class.
SubclassUntested(pith_curr_assign_expr, pith_curr_var_name, hint_curr_expr) ==
    EIsSubclass(pith_curr_assign_expr, hint_curr_expr)

\* (isinstance({pith_curr_assign_expr}, type) and
\*  issubclass({pith_curr_var_name}, {hint_curr_expr}))
PEP484585_CODE_HINT_SUBCLASS(pith_curr_assign_expr, pith_curr_var_name, hint_curr_expr) ==
    EAnd(<<EIsInstance(pith_curr_assign_expr, {"type"}),
           EIsSubclass(EVar(pith_curr_var_name), hint_curr_expr)>>)

\* isinstance({pith_curr_expr}, {hint_curr_expr}) or
PEP484_CODE_HINT_UNION_CHILD_NONPEP(pith_curr_expr, hint_curr_expr) ==
    EIsInstance(pith_curr_expr, hint_curr_expr)

\* Variant: the children joined by "and".
UnionJoinedByAnd(children) == EAnd(children)

\* PEP484_CODE_HINT_UNION_PREFIX, the children's snippets in the order given
\* and _SUFFIX, the last " or" sliced off: (child or ... or child)
PEP484_CODE_HINT_UNION(children) == EOr(children)

\* {pith_curr_var_name} == {hint_child_expr} or
PEP586_CODE_HINT_LITERAL(pith_curr_var_name, hint_child_expr) ==
    EEq(EVar(pith_curr_var_name), hint_child_expr)

\* Variant: the type test passes for every object.
LiteralAnyType(pith_curr_assign_expr, hint_child_types_expr, literals) ==
    EAnd(<<EIsInstance(pith_curr_assign_expr, {"object"}), EOr(literals)>>)

\* PEP586_CODE_HINT_PREFIX, the literals' snippets and _SUFFIX, the last
\* " or" sliced off:
\* (isinstance({pith_curr_assign_expr}, {hint_child_types_expr}) and
\*  (literal or ... or literal))
PEP586_CODE_HINT(pith_curr_assign_expr, hint_child_types_expr, literals) ==
    EAnd(<<EIsInstance(pith_curr_assign_expr, hint_child_types_expr),
           EOr(literals)>>)

\* PEP484585_CODE_HINT_GENERIC_PREFIX, one _CHILD per pseudo-superclass and
\* _SUFFIX, the last " and" sliced off:
\* (isinstance({pith_curr_assign_expr}, {hint_curr_expr}) and
\*  {hint_child_placeholder} and ... and {hint_child_placeholder})
PEP484585_CODE_HINT_GENERIC(pith_curr_assign_expr, hint_curr_expr, hint_child_placeholders) ==
    EAnd(<<EIsInstance(pith_curr_assign_expr, hint_curr_expr)>>
         \o hint_child_placeholders)

\* PEP593_CODE_HINT_VALIDATOR_PREFIX, one _CHILD per validator and _SUFFIX,
\* the last " and" sliced off:
\* ({hint_child_placeholder} and {hint_child_expr} and ... {hint_child_expr})
PEP593_CODE_HINT_VALIDATOR(hint_child_placeholder, hint_child_exprs) ==
    EAnd(<<hint_child_placeholder>> \o hint_child_exprs)

\* ---- hints: [kind, types, childs, literals] ----
Hint(kind, types, childs, literals) ==
    [kind |-> kind, types |-> types, childs |-> childs,
     literals |-> literals]

NoHint == Hint("none", {}, <<>>, <<>>)
\* A class, or a tuple of classes.
HintInstance(types) == Hint("instance", types, <<>>, <<>>)
\* origin[child], origin a sequence class.
HintSequence(origin, child) == Hint("sequence", origin, <<child>>, <<>>)
\* tuple[childs]; tuple[()] for no childs.
HintTuple(childs) == Hint("tuple", {"tuple"}, childs, <<>>)
\* Union of the plain classes types and the other hints childs.
HintUnion(types, childs) == Hint("union", types, childs, <<>>)
HintLiteral(literals) == Hint("literal", {}, <<>>, literals)
\* type[types]
HintSubclass(types) == Hint("subclass", types, <<>>, <<>>)
\* A generic of class origin over the pseudo-superclasses childs.
HintGeneric(origin, childs) == Hint("generic", origin, childs, <<>>)
\* Annotated[child, Is[pith == v] for each v of validators].
HintAnnotated(child, validators) ==
    Hint("annotated", {}, <<child>>, validators)

\* ---- assembling the snippets of a hint ----
\* The code checking the pith that pith_curr_expr yields against hint h, the
\* pith variable of this depth being number n.
RECURSIVE HintCode(_, _, _)
HintCode(h, pith_curr_expr, n) ==
    LET pith_curr_assign_expr == PEP_CODE_PITH_ASSIGN_EXPR(n, pith_curr_expr)
        childs == h.childs
    IN  CASE h.kind = "instance" ->
               PEP484_CODE_HINT_INSTANCE(pith_curr_expr, h.types)
          [] h.kind = "sequence" ->
               PEP484585_CODE_HINT_SEQUENCE_ARGS_1(
                   pith_curr_assign_expr, h.types, n,
                   HintCode(childs[1],
                       PEP484585_CODE_HINT_SEQUENCE_ARGS_1_PITH_CHILD_EXPR(n),
                       n + 1))
          [] h.kind = "tuple" ->
               IF childs = <<>>
               THEN PEP484585_CODE_HINT_TUPLE_FIXED_EMPTY(
                        pith_curr_assign_expr, n)
               ELSE PEP484585_CODE_HINT_TUPLE_FIXED_NONEMPTY(
                        pith_curr_assign_expr, n, Len(childs),
                        [i \in 1 .. Len(childs) |->
                           HintCode(childs[i],
                               PEP484585_CODE_HINT_TUPLE_FIXED_NONEMPTY_PITH_CHILD_EXPR(
                                   n, i - 1),
                               n + 1)])
          [] h.kind = "union" ->
               PEP484_CODE_HINT_UNION(
                   (IF h.types = {} THEN <<>>
                    ELSE <<PEP484_CODE_HINT_UNION_CHILD_NONPEP(
                               pith_curr_assign_expr, h.types)>>)
                   \o [i \in 1 .. Len(childs) |->
                         HintCode(childs[i],
                             IF h.types = {} /\ i = 1
                             THEN pith_curr_assign_expr ELSE EVar(n),
                             n + 1)])
          [] h.kind = "literal" ->
               PEP586_CODE_HINT(
                   pith_curr_assign_expr,
                   {h.literals[i].type : i \in 1 .. Len(h.literals)},
                   [i \in 1 .. Len(h.literals) |->
                      PEP586_CODE_HINT_LITERAL(n, EConst(h.literals[i]))])
          [] h.kind = "subclass" ->
               PEP484585_CODE_HINT_SUBCLASS(pith_curr_assign_expr, n, h.types)
          [] h.kind = "generic" ->
               PEP484585_CODE_HINT_GENERIC(
                   pith_curr_assign_expr, h.types,
                   [i \in 1 .. Len(childs) |->
                      HintCode(childs[i], EVar(n), n + 1)])
          [] h.kind = "annotated" ->
               PEP593_CODE_HINT_VALIDATOR(
                   HintCode(childs[1], pith_curr_assign_expr, n + 1),
                   [i \in 1 .. Len(h.literals) |->
                      EEq(EVar(n), EConst(h.literals[i]))])

\* The code of the root hint h: the pith is the root pith, the first pith
\* variable is number 1.
RootCode(h) == HintCode(h, ERoot, 1)

\* Running the check of hint h on pith p with random integer r.
RunCheck(h, p, r) == Eval(RootCode(h), EvalStart(p, r))

\* ---- the piths and hints checked ----
\* Most childs of a fixed tuple hint checked.
MaxChilds == 2

\* The sequences over S of length at most n.
SeqsUpTo(S, n) == UNION {[1 .. k -> S] : k \in 0 .. n}

Scalars ==
    {PyInt(1), PyInt(2), PyBool(TRUE), PyFloat(1), PyStr(1), PyStr(2), PyNone}
ClassObjects == {PyClass("int"), PyClass("bool"), PyClass("str")}
Elements == {PyInt(1), PyStr(1)}
FlatLists == {PyList(e) : e \in SeqsUpTo(Elements, MaxLen)}
FlatTuples == {PyTuple(e) : e \in SeqsUpTo(Elements, MaxLen)}
NestedLists ==
    {PyList(e) :
       e \in SeqsUpTo({PyList(<<>>), PyList(<<PyInt(1)>>),
                       PyList(<<PyStr(1)>>)}, 2)}
Piths ==
    Scalars \cup ClassObjects \cup FlatLists \cup FlatTuples \cup NestedLists
RandomInts == 0 .. MaxRandomInt

PlainHints == {HintInstance({"int"}), HintInstance({"str"})}
SequenceHints ==
    {HintSequence(o, c) :
       o \in {{"list"}, {"tuple"}},
       c \in PlainHints \cup {HintSequence({"list"}, HintInstance({"int"}))}}
TupleHints == {HintTuple(c) : c \in SeqsUpTo(PlainHints, MaxChilds)}
UnionHints ==
    {HintUnion(t, c) :
       t \in {{"int", "str"}, {"int", "NoneType"}, {"str"}, {}},
       c \in {<<>>,
              <<HintSequence({"list"}, HintInstance({"int"}))>>,
              <<HintSequence({"list"}, HintInstance({"int"})),
                HintTuple(<<HintInstance({"str"})>>)>>}}
    \ {HintUnion({}, <<>>), HintUnion({"str"}, <<>>)}
LiteralHints ==
    {HintLiteral(l) :
       l \in {<<PyInt(1), PyStr(1)>>, <<PyInt(1)>>, <<PyStr(1), PyStr(2)>>,
              <<PyBool(TRUE)>>, <<PyNone>>, <<PyInt(2), PyStr(1)>>}}
SubclassHints == {HintSubclass({"int"}), HintSubclass({"str"})}
GenericHints ==
    {HintGeneric({"list"}, c) :
       c \in {<<HintSequence({"list"}, HintInstance({"int"}))>>,
              <<HintSequence({"list"}, HintInstance({"int"})),
                HintSequence({"list"}, HintInstance({"str"}))>>}}
AnnotatedHints ==
    {HintAnnotated(HintInstance({"int"}), v) :
       v \in {<<PyInt(1)>>, <<PyInt(1), PyInt(2)>>}}
    \cup {HintAnnotated(HintSequence({"list"}, HintInstance({"int"})),
                        <<PyList(<<PyInt(1)>>)>>)}

\* ---- one checked call ----
VARIABLES
    pith,       \* the value under check
    randomInt,  \* the random integer drawn for the call
    hint,       \* the hint the value was checked against, NoHint before
    verdict     \* what running the check gave: [exc, val, st]

checkVars == <<pith, randomInt, hint, verdict>>

NoVerdict == Ok(PyNone, EvalStart(PyNone, 0))

\* No check under way.
ChecksIdle ==
    /\ pith = PyNone
    /\ randomInt = 0
    /\ hint = NoHint
    /\ verdict = NoVerdict

\* The wrapper runs the code of hint h on its pith.
Check(h) ==
    /\ hint = NoHint
    /\ hint' = h
    /\ verdict' = RunCheck(h, pith, randomInt)
    /\ UNCHANGED <<pith, randomInt>>

CheckSequence == \E h \in SequenceHints : Check(h)
CheckTuple == \E h \in TupleHints : Check(h)
CheckUnion == \E h \in UnionHints : Check(h)
CheckLiteral == \E h \in LiteralHints : Check(h)
CheckSubclass == \E h \in SubclassHints : Check(h)
CheckGeneric == \E h \in GenericHints : Check(h)
CheckAnnotated == \E h \in AnnotatedHints : Check(h)

\* ------------------------------------------------------- placeholders ----
\* Strings are sequences of characters, the backquote written "BACKQUOTE"
\* and the quote "QUOTE".  A code template is text holding
\* placeholders of three families; each is later replaced, everywhere in the
\* template at once, by the text that belongs in its place.

PEP_CODE_PITH_ROOT_PARAM_NAME_PLACEHOLDER ==
    <<"?", "|", "P", "I", "T", "H", "_", "R", "O", "O", "T", "_", "N", "A",
      "M", "E", "BACKQUOTE", "^">>
PEP_CODE_HINT_CHILD_PLACEHOLDER_PREFIX == <<"@", "[">>
PEP_CODE_HINT_CHILD_PLACEHOLDER_SUFFIX == <<")", "!">>
PEP_CODE_HINT_FORWARDREF_UNQUALIFIED_PLACEHOLDER_PREFIX ==
    <<"$", "{", "F", "O", "R", "W", "A", "R", "D", "R", "E", "F", ":">>

\* Variant: the suffix of the child placeholders.
ForwardRefSuffixOfChild == <<")", "!">>

PEP_CODE_HINT_FORWARDREF_UNQUALIFIED_PLACEHOLDER_SUFFIX == <<"]", "?">>

\* The placeholder of the child hint numbered id (a string of digits).
ChildPlaceholder(id) ==
    PEP_CODE_HINT_CHILD_PLACEHOLDER_PREFIX \o id
        \o PEP_CODE_HINT_CHILD_PLACEHOLDER_SUFFIX

\* The placeholder of the forward reference to the class called name.
ForwardRefPlaceholder(name) ==
    PEP_CODE_HINT_FORWARDREF_UNQUALIFIED_PLACEHOLDER_PREFIX \o name
        \o PEP_CODE_HINT_FORWARDREF_UNQUALIFIED_PLACEHOLDER_SUFFIX

\* s.replace(old, new): every occurrence of old in s, found from the left
\* and not overlapping an earlier one, replaced by new.
RECURSIVE StrReplace(_, _, _)
StrReplace(s, old, new) ==
    IF Len(s) < Len(old) THEN s
    ELSE IF SubSeq(s, 1, Len(old)) = old
    THEN new \o StrReplace(SubSeq(s, Len(old) + 1, Len(s)), old, new)
    ELSE <<Head(s)>> \o StrReplace(Tail(s), old, new)

\* Most pieces of a template.
MaxPieces == 3

\* The pieces of a template: [family, text], family "text" for plain code,
\* else text the number or name a placeholder carries.
Piece(family, text) == [family |-> family, text |-> text]

ChildIds == {<<"0">>, <<"1">>, <<"1", "0">>}
ForwardRefNames ==
    {<<"A">>, <<"P", "I", "T", "H", "_", "R", "O", "O", "T", "_", "N", "A",
               "M", "E">>}
CodeTexts == {<<"(">>, <<")">>, <<" ", "o", "r", " ">>}
ChildPieces == {Piece("child", id) : id \in ChildIds}
ForwardRefPieces == {Piece("forwardref", name) : name \in ForwardRefNames}
RootPiece == Piece("root", <<>>)
TextPieces == {Piece("text", t) : t \in CodeTexts}
Pieces == ChildPieces \cup ForwardRefPieces \cup {RootPiece} \cup TextPieces

\* The text of a piece.
PieceText(piece) ==
    CASE piece.family = "child" -> ChildPlaceholder(piece.text)
      [] piece.family = "forwardref" -> ForwardRefPlaceholder(piece.text)
      [] piece.family = "root" -> PEP_CODE_PITH_ROOT_PARAM_NAME_PLACEHOLDER
      [] OTHER -> piece.text

\* The text of a sequence of pieces.
RECURSIVE Join(_)
Join(pieces) ==
    IF pieces = <<>> THEN <<>>
    ELSE PieceText(Head(pieces)) \o Join(Tail(pieces))

\* pieces with every piece equal to old replaced by the pieces new.
RECURSIVE Splice(_, _, _)
Splice(pieces, old, new) ==
    IF pieces = <<>> THEN <<>>
    ELSE (IF Head(pieces) = old THEN new ELSE <<Head(pieces)>>)
         \o Splice(Tail(pieces), old, new)

\* What a child placeholder is replaced by: the code of the child hint,
\* which may hold placeholders of its own.
ChildCodes ==
    {<<Piece("text", <<"x">>)>>,
     <<Piece("text", <<"(">>), Piece("forwardref", <<"A">>),
       Piece("text", <<")">>)>>,
     <<Piece("child", <<"1">>), Piece("text", <<")">>)>>,
     <<RootPiece>>}
\* What a forward reference placeholder is replaced by: a class expression.
ClassExprs == {<<"B">>, <<"m", ".", "A">>}
\* What the root name placeholder is replaced by: the repr() of a name.
RootNames ==
    {<<"QUOTE", "x", "QUOTE">>,
     <<"QUOTE", "r", "e", "t", "u", "r", "n", "QUOTE">>}

VARIABLES
    template,   \* the text of the template
    pieces      \* the pieces the template was put together from

placeholderVars == <<template, pieces>>

\* No template under way.
PlaceholdersIdle == template = <<>> /\ pieces = <<>>

\* The number of pieces of the template equal to piece.
Holds(piece) == Cardinality({i \in DOMAIN pieces : pieces[i] = piece})

\* Structural substitution: the code of the child hint numbered id replaces
\* the placeholder of that child.
ReplaceChild(id, code) ==
    /\ Holds(Piece("child", id)) > 0
    /\ Len(pieces) - Holds(Piece("child", id)) * (1 - Len(code))
           <= 2 * MaxPieces
    /\ template' = StrReplace(template, ChildPlaceholder(id), Join(code))
    /\ pieces' = Splice(pieces, Piece("child", id), code)

\* Structural substitution: a class expression replaces the placeholder
\* of the forward reference to name.
ReplaceForwardRef(name, expr) ==
    /\ Holds(Piece("forwardref", name)) > 0
    /\ template' = StrReplace(template, ForwardRefPlaceholder(name), expr)
    /\ pieces' = Splice(pieces, Piece("forwardref", name),
                        <<Piece("text", expr)>>)

\* Root name substitution, at each call site.
ReplaceRoot(name) ==
    /\ Holds(RootPiece) > 0
    /\ template' =
           StrReplace(template, PEP_CODE_PITH_ROOT_PARAM_NAME_PLACEHOLDER,
                      name)
    /\ pieces' = Splice(pieces, RootPiece, <<Piece("text", name)>>)

\* ---------------------------------------------------- reference cache ----
\* An LRU cache as a map from keys to values with a list of the cached keys
\* from the least to the most recently used, offering get and put only.
VARIABLES
    refCapacity,    \* the capacity, 0 before the cache exists
    refMap,         \* key -> cached value, NoValue for a key not cached
    refOrder,       \* the cached keys, least recently used first
    refResult       \* the outcome of the last call

refVars == <<refCapacity, refMap, refOrder, refResult>>

\* No reference cache yet.
RefIdle ==
    /\ refCapacity = 0
    /\ refMap = [k \in HashableKeys |-> NoValue]
    /\ refOrder = <<>>
    /\ refResult = Returned(NoValue)

\* order without key.
Without(order, key) == SelectSeq(order, LAMBDA k : k # key)

\* A new cache of the capacity asked for, if that is a positive integer.
RefNew(sizeArg) ==
    /\ refCapacity = 0
    /\ IF sizeArg.type \in {"int", "bool"} /\ sizeArg.val >= 1
       THEN /\ refCapacity' = sizeArg.val
            /\ refResult' = Returned(NoValue)
       ELSE /\ refCapacity' = 0
            /\ refResult' = Raised("_BeartypeUtilLRUCacheException")
    /\ UNCHANGED <<refMap, refOrder>>

\* get: the value of a cached key, which becomes the most recently used.
RefGet(key) ==
    /\ refCapacity > 0
    /\ IF key \notin HashableKeys
       THEN /\ refResult' = Raised("TypeError")
            /\ UNCHANGED <<refMap, refOrder>>
       ELSE IF refMap[key] = NoValue
       THEN /\ refResult' = Raised("KeyError")
            /\ UNCHANGED <<refMap, refOrder>>
       ELSE /\ refResult' = Returned(refMap[key])
            /\ refOrder' = Without(refOrder, key) \o <<key>>
            /\ UNCHANGED refMap
    /\ UNCHANGED refCapacity

\* put: the key is cached with the value as the most recently used; if that
\* makes more keys than the capacity, the least recently used is dropped.
RefPut(key, value) ==
    /\ refCapacity > 0
    /\ IF key \notin HashableKeys
       THEN /\ refResult' = Raised("TypeError")
            /\ UNCHANGED <<refMap, refOrder>>
       ELSE LET order == Without(refOrder, key) \o <<key>>
                map == [refMap EXCEPT ![key] = value]
            IN  /\ refResult' = Returned(NoValue)
                /\ IF Len(order) > refCapacity
                   THEN /\ refOrder' = Tail(order)
                        /\ refMap' = [map EXCEPT ![Head(order)] = NoValue]
                   ELSE /\ refOrder' = order
                        /\ refMap' = map
    /\ UNCHANGED refCapacity

\* ---------------------------------------------------------------- spec ----
\* Sequential use: one call at a time, each running to its end.
idleVars == <<threadVars, checkVars, placeholderVars, refVars>>

Next ==
    \/ \E sizeArg \in SizeArgs : Construct(sizeArg) /\ UNCHANGED idleVars
    \/ \E key \in Keys : GetItem(key) /\ UNCHANGED idleVars
    \/ \E key \in Keys, value \in Values :
         SetItem(key, value) /\ UNCHANGED idleVars

\* Before construction, with no thread running and no check under way.
SeqInit ==
    Init /\ ThreadsIdle /\ ChecksIdle /\ PlaceholdersIdle /\ RefIdle

Spec == SeqInit /\ [][Next]_vars

\* Unsynchronized use: a constructed cache holding some entries, and two
\* threads that each make one call.
ThreadInit ==
    /\ constructed = TRUE
    /\ size \in 1 .. MaxSize
    /\ items \in StartDicts(size)
    /\ start = items
    /\ pc = [t \in Threads |-> "idle"]
    /\ frame = [t \in Threads |-> NoFrame]
    /\ outcome = [t \in Threads |-> Returned(NoValue)]
    /\ overlapped = FALSE
    /\ call = NoCall
    /\ result = Returned(NoValue)
    /\ before = <<>>
    /\ lastPut = [k \in HashableKeys |-> NoValue]
    /\ useOrder = <<>>
    /\ putLog = <<>>
    /\ putsOnly = TRUE
    /\ lruRead = NoRead
    /\ ChecksIdle
    /\ PlaceholdersIdle
    /\ RefIdle

historyVars == <<call, result, before, lastPut, useOrder, putLog, putsOnly,
                 lruRead, checkVars, placeholderVars, refVars>>

ThreadNext ==
    \/ \E t \in Threads, key \in Keys :
         GetLookup(t, key) /\ UNCHANGED historyVars
    \/ \E t \in Threads : GetDelete(t) /\ UNCHANGED historyVars
    \/ \E t \in Threads : GetReAdd(t) /\ UNCHANGED historyVars
    \/ \E t \in Threads, key \in Keys, value \in Values :
         PutContains(t, key, value) /\ UNCHANGED historyVars
    \/ \E t \in Threads : PutDelete(t) /\ UNCHANGED historyVars
    \/ \E t \in Threads : PutAdd(t) /\ UNCHANGED historyVars
    \/ \E t \in Threads : PutLen(t) /\ UNCHANGED historyVars
    \/ \E t \in Threads : PutFirst(t) /\ UNCHANGED historyVars
    \/ \E t \in Threads : PutEvict(t) /\ UNCHANGED historyVars

allVars == <<vars, threadVars, checkVars, placeholderVars, refVars>>

SpecThreads == ThreadInit /\ [][ThreadNext]_allVars

\* Generated checks: one call of a wrapper, its pith and random integer
\* drawn beforehand, checking the pith against one hint.
CheckInit ==
    /\ Init
    /\ ThreadsIdle
    /\ pith \in Piths
    /\ randomInt \in RandomInts
    /\ hint = NoHint
    /\ verdict = NoVerdict
    /\ PlaceholdersIdle
    /\ RefIdle

cacheVars == <<vars, threadVars, placeholderVars, refVars>>

CheckNext ==
    \/ CheckSequence /\ UNCHANGED cacheVars
    \/ CheckTuple /\ UNCHANGED cacheVars
    \/ CheckUnion /\ UNCHANGED cacheVars
    \/ CheckLiteral /\ UNCHANGED cacheVars
    \/ CheckSubclass /\ UNCHANGED cacheVars
    \/ CheckGeneric /\ UNCHANGED cacheVars
    \/ CheckAnnotated /\ UNCHANGED cacheVars

SpecCheck == CheckInit /\ [][CheckNext]_allVars

\* Templates: a template put together from at most MaxPieces pieces, then
\* its placeholders replaced one family member at a time.
PlaceholderInit ==
    /\ Init
    /\ ThreadsIdle
    /\ ChecksIdle
    /\ RefIdle
    /\ pieces \in SeqsUpTo(Pieces, MaxPieces) \ {<<>>}
    /\ template = Join(pieces)

otherVars == <<vars, threadVars, checkVars, refVars>>

PlaceholderNext ==
    \/ \E id \in ChildIds, code \in ChildCodes :
         ReplaceChild(id, code) /\ UNCHANGED otherVars
    \/ \E name \in ForwardRefNames, expr \in ClassExprs :
         ReplaceForwardRef(name, expr) /\ UNCHANGED otherVars
    \/ \E name \in RootNames : ReplaceRoot(name) /\ UNCHANGED otherVars

SpecPlaceholder == PlaceholderInit /\ [][PlaceholderNext]_allVars

\* Side by side: every call is made of the cache and of the reference cache.
restVars == <<threadVars, checkVars, placeholderVars>>

RefineNext ==
    \/ \E sizeArg \in SizeArgs :
         Construct(sizeArg) /\ RefNew(sizeArg) /\ UNCHANGED restVars
    \/ \E key \in Keys : GetItem(key) /\ RefGet(key) /\ UNCHANGED restVars
    \/ \E key \in Keys, value \in Values :
         SetItem(key, value) /\ RefPut(key, value) /\ UNCHANGED restVars

SpecRefine == SeqInit /\ [][RefineNext]_allVars

\* ============================================================ claims ====
\* The entries of d other than key's, in iteration order.
Others(d, key) == SelectSeq(d, LAMBDA e : e.key # key)

\* The value d holds for a present key.
ValueOf(d, key) == d[CHOOSE i \in DOMAIN d : d[i].key = key].value

\* Position of key's latest use in the history of uses.
UsePos(order, key) == CHOOSE i \in DOMAIN order : order[i] = key

\* key is present in d and its latest put or successful get is older than
\* that of every other present key.
IsLeastRecentlyUsed(d, order, key) ==
    /\ key \in DictKeys(d)
    /\ \A other \in DictKeys(d) \ {key} :
         UsePos(order, key) < UsePos(order, other)

\* ---- C1 -----------------------------------------------------------------
\* A step that puts an absent key into a cache holding exactly `size`
\* entries.
C1_Case ==
    /\ constructed
    /\ Len(items) = size
    /\ call'.op = "put"
    /\ call'.key \in HashableKeys
    /\ call'.key \notin DictKeys(items)

C1_Effect ==
    LET gone == DictKeys(items) \ DictKeys(items')
    IN  /\ Cardinality(gone) = 1
        /\ Len(items') = size
        /\ \A k \in gone :
             /\ IsLeastRecentlyUsed(items, useOrder, k)
             /\ Others(items', call'.key) = Others(items, k)
        /\ items'[Len(items')] = [key |-> call'.key, value |-> call'.value]

\* C1: a put of an absent key into a full cache removes exactly one entry,
\* the one whose latest put or successful get is the oldest; the other
\* entries keep their values and relative order, and the new key comes last
\* (most recently used).
C1_PutEvictsLRU == [][C1_Case => C1_Effect]_vars

\* A full cache of capacity >= 3 has just had an absent key put.
C1_Witness ==
    /\ call.op = "put"
    /\ result.exc = "none"
    /\ size >= 3
    /\ Len(before) = size
    /\ call.key \notin DictKeys(before)
    /\ Len(items) = size

\* ---- C2 -----------------------------------------------------------------
\* C2: after every completed get or put on a cache of capacity `size`, the
\* cache holds at most `size` entries.
C2_AtMostSize == constructed => Len(items) <= size

\* A put of an absent key into a full cache has completed.
C2_Witness ==
    /\ constructed
    /\ call.op = "put"
    /\ result.exc = "none"
    /\ Len(before) = size
    /\ call.key \notin DictKeys(before)
    /\ Len(items) = size

\* ---- C3 -----------------------------------------------------------------
\* The last call was a get of a key that was present.
C3_Case == call.op = "get" /\ call.key \in DictKeys(before)

\* C3: a get of a present key returns the value of the latest put of that
\* key, makes the key the last (most recently used) entry, and leaves the
\* key set, every value and the relative order of the other keys as they
\* were.
C3_GetRefreshes ==
    C3_Case =>
        /\ result = Returned(lastPut[call.key])
        /\ items[Len(items)].key = call.key
        /\ Len(items) = Len(before)
        /\ DictKeys(items) = DictKeys(before)
        /\ \A k \in DictKeys(before) : ValueOf(items, k) = ValueOf(before, k)
        /\ Others(items, call.key) = Others(before, call.key)

\* A get hit on the first of at least three entries.
C3_Witness ==
    /\ C3_Case
    /\ Len(before) >= 3
    /\ before[1].key = call.key
    /\ result.exc = "none"

\* ---- C4 -----------------------------------------------------------------
\* The last call was a put of a key that was present.
C4_Case == call.op = "put" /\ call.key \in DictKeys(before)

\* C4: a put of a present key replaces its value, makes the key the last
\* (most recently used) entry, removes no entry and keeps the entry count.
C4_PutPresent ==
    C4_Case =>
        /\ result = Returned(NoValue)
        /\ items = Append(Others(before, call.key),
                          [key |-> call.key, value |-> call.value])
        /\ DictKeys(items) = DictKeys(before)
        /\ Len(items) = Len(before)

\* The first entry of a full cache of capacity >= 2 was put again with
\* another value.
C4_Witness ==
    /\ C4_Case
    /\ size >= 2
    /\ Len(before) = size
    /\ before[1].key = call.key
    /\ before[1].value # call.value

\* A full cache of capacity 1 had its only key put again with another value.
C4_WitnessSizeOne ==
    /\ C4_Case
    /\ size = 1
    /\ before[1].value # call.value
\* ---- C5 -----------------------------------------------------------------
\* Every call so far was a put, of size + 1 pairwise distinct keys.
C5_Case == constructed /\ putsOnly /\ Len(putLog) = size + 1

\* C5: after size + 1 puts of pairwise distinct keys into an empty cache, the
\* first key is absent and the cache iterates over the other keys in the
\* order they were put, the latest last.
C5_FirstOfManyEvicted ==
    C5_Case =>
        /\ putLog[1] \notin DictKeys(items)
        /\ \A i \in 2 .. size + 1 : putLog[i] \in DictKeys(items)
        /\ DictKeySeq(items) = Tail(putLog)

\* The scenario has run to its end on a cache of capacity >= 2.
C5_Witness == C5_Case /\ size >= 2

\* ---- C6 -----------------------------------------------------------------
\* The last two calls were a successful get of the least recently used key
\* of a full cache of capacity >= 2, then a put of an absent key.
C6_Case == lruRead.stage = "put"

\* C6: the key that was read stays present, and the key that was second
\* least recently used before the read is the one evicted.
C6_ReadSparesLRU ==
    C6_Case =>
        /\ lruRead.key \in DictKeys(items)
        /\ lruRead.next \notin DictKeys(items)
        /\ DictKeys(before) \ DictKeys(items) = {lruRead.next}

\* The scenario has run to its end on a cache of capacity >= 3.
C6_Witness == C6_Case /\ size >= 3 /\ call.op = "put"

\* ---- C7 -----------------------------------------------------------------
\* The last call was a construction.
C7_Case == call.op = "init"

\* C7: construction raises the cache exception and yields no cache when the
\* capacity is not an integer or is an integer <= 0; otherwise it yields an
\* empty cache of that capacity.
C7_InitValidates ==
    C7_Case =>
        IF call.size.type \notin {"int", "bool"} \/ call.size.val <= 0
        THEN /\ result = Raised("_BeartypeUtilLRUCacheException")
             /\ ~constructed
        ELSE /\ result = Returned(NoValue)
             /\ constructed
             /\ items = <<>>
             /\ size = call.size.val

\* Construction with the float 2.0 has failed.
C7_Witness ==
    /\ C7_Case
    /\ call.size = [type |-> "float", val |-> 2]
    /\ result.exc = "_BeartypeUtilLRUCacheException"

\* Construction with the largest capacity has succeeded.
C7_WitnessSuccess == C7_Case /\ constructed /\ size = MaxSize

\* ---- C8 -----------------------------------------------------------------
\* The last call was a get or a put with an unhashable key.
C8_Case == call.op \in {"get", "put"} /\ call.key \in UnhashableKeys

\* C8: the call raises TypeError and the dict is exactly as it was.
C8_UnhashableRejected ==
    C8_Case => result = Raised("TypeError") /\ items = before

\* A put with an unhashable key was made on a full cache.
C8_Witness ==
    /\ C8_Case
    /\ call.op = "put"
    /\ Len(before) = size
    /\ result.exc = "TypeError"

\* ---- C9 -----------------------------------------------------------------
\* The last call was a get of a hashable key that was not present.
C9_Case ==
    /\ call.op = "get"
    /\ call.key \in HashableKeys
    /\ call.key \notin DictKeys(before)

\* C9: the get raises KeyError and the dict is exactly as it was.
C9_MissLeavesCache == C9_Case => result = Raised("KeyError") /\ items = before

\* A get missed on a key that had been put and evicted since, on a full
\* cache.
C9_Witness ==
    /\ C9_Case
    /\ lastPut[call.key] # NoValue
    /\ Len(before) = size
    /\ result.exc = "KeyError"

\* ---- C10 ----------------------------------------------------------------
C10_Step ==
    /\ \A k \in DictKeys(items) \ DictKeys(items') :
         /\ call'.op = "put"
         /\ call'.key \in HashableKeys
         /\ call'.key \notin DictKeys(items)
         /\ Len(items) = size
         /\ IsLeastRecentlyUsed(items, useOrder, k)
         /\ result'.exc = "none"
         /\ GetItemOutcome(items', k).result = Raised("KeyError")
    /\ \A k \in HashableKeys :
         call'.op = "put" /\ call'.key = k => k \in DictKeys(items')
    /\ \A k \in DictKeys(items') : ValueOf(items', k) = lastPut'[k]

AllDone == \A t \in Threads : pc[t] = "done"

\* Both calls have completed and the cache holds more entries than its
\* capacity.
C11_OverCapacity == AllDone /\ Len(items) > size

\* Both calls have completed and the cache holds fewer entries than before
\* them: an entry was lost, which no get and no put does on its own.
C11_EntryLost == AllDone /\ Len(items) < Len(start)

\* Both calls have completed normally, a put and a get of one key, and the
\* cache holds the key with another value than the one put: the get re-added
\* the value it had read before the put.  In either order of the two calls
\* the key would hold the value put.
C11_StaleValue ==
    /\ AllDone
    /\ \E t \in Threads, u \in Threads :
         /\ frame[t].op = "put" /\ frame[u].op = "get"
         /\ frame[t].key = frame[u].key
         /\ outcome[t] = Returned(NoValue)
         /\ outcome[u].exc = "none"
         /\ frame[t].key \in DictKeys(items)
         /\ ValueOf(items, frame[t].key) # frame[t].value

\* A call found its key present and then failed with a KeyError raised by
\* a delete (line 144, 191 or 200), not by the lookup of line 140.
C11_SpuriousKeyError ==
    \E t \in Threads :
        /\ pc[t] = "done"
        /\ outcome[t].exc = "KeyError"
        /\ frame[t].line \in {144, 191, 200}

C11_Corrupted ==
    \/ C11_OverCapacity
    \/ C11_EntryLost
    \/ C11_StaleValue
    \/ C11_SpuriousKeyError

\* C11: with no mutual exclusion the dict steps of two calls interleave and
\* a corrupted state is reachable (C11_Witness); two calls that run one
\* after the other never corrupt the cache.
C11_CorruptionNeedsOverlap == C11_Corrupted => overlapped

\* Both calls returned normally and the cache exceeds its capacity.
C11_Witness ==
    /\ C11_OverCapacity
    /\ \A t \in Threads : outcome[t].exc = "none"

\* A get of a present key failed with KeyError at its delete.
C11_WitnessKeyError ==
    /\ AllDone
    /\ \E t \in Threads :
         /\ frame[t].op = "get"
         /\ outcome[t].exc = "KeyError"
         /\ frame[t].line = 144
         /\ frame[t].key \in DictKeys(start)

\* Two puts returned normally and left fewer entries than there were.
C11_WitnessEntryLost ==
    /\ C11_EntryLost
    /\ \A t \in Threads : frame[t].op = "put" /\ outcome[t].exc = "none"

\* A put that returned normally had its value replaced by a stale one.
C11_WitnessStaleValue == C11_StaleValue /\ Len(items) <= size
\* ---- generated checks ----
\* The check of hint h holds on pith p with random integer r.
CheckHolds(h, p, r) ==
    LET v == RunCheck(h, p, r) IN v.exc = "none" /\ Truthy(v.val)

\* The check came to an end with True or False.
VerdictIsBool == verdict.exc = "none" /\ verdict.val.type = "bool"

\* The check came to an end with a true value.
Passed == verdict.exc = "none" /\ Truthy(verdict.val)

\* Every, no, some but not all items of p satisfy the child hint c.
AllSatisfy(p, c) ==
    \A i \in DOMAIN p.items, r \in RandomInts : CheckHolds(c, p.items[i], r)
NoneSatisfy(p, c) ==
    \A i \in DOMAIN p.items, r \in RandomInts : ~CheckHolds(c, p.items[i], r)
Mixed(p, c) == ~AllSatisfy(p, c) /\ ~NoneSatisfy(p, c)

\* C12: the sequence check is true exactly when the pith is an instance of
\* the sequence origin and is empty or has its item number
\* randomInt mod len(pith) satisfy the child hint.  So whatever the random
\* integer, it is true for an empty instance and for an instance all of whose
\* items satisfy the child hint, false for a non-empty pith none of whose
\* items does, and only a pith of mixed conformance gets different results
\* with different random integers.
C12_SequenceCheck ==
    hint.kind = "sequence" =>
        LET c == hint.childs[1]
            n == Len(pith.items)
            isOrigin == IsInstanceOf(pith, hint.types)
        IN  /\ VerdictIsBool
            /\ Passed <=>
                 /\ isOrigin
                 /\ \/ n = 0
                    \/ CheckHolds(c, pith.items[(randomInt % n) + 1],
                                  randomInt)
            /\ isOrigin /\ n = 0 => Passed
            /\ isOrigin /\ AllSatisfy(pith, c) => Passed
            /\ n > 0 /\ NoneSatisfy(pith, c) => ~Passed
            /\ \A r \in RandomInts :
                 CheckHolds(hint, pith, r) # Passed => Mixed(pith, c)

\* A list of mixed conformance was checked with a random integer beyond its
\* length, and another random integer gives the other result.
C12_Witness ==
    /\ hint.kind = "sequence"
    /\ IsInstanceOf(pith, hint.types)
    /\ randomInt >= Len(pith.items)
    /\ Passed
    /\ \E r \in RandomInts : ~CheckHolds(hint, pith, r)

\* C13: the check of a fixed-length tuple hint of N >= 1 childs is true
\* exactly when the pith is a tuple of length N whose item i satisfies child
\* i for every i; the check of the empty tuple hint is true exactly when the
\* pith is a tuple of length 0.
C13_TupleFixedCheck ==
    hint.kind = "tuple" =>
        LET N == Len(hint.childs)
            isTuple == IsInstanceOf(pith, {"tuple"})
        IN  /\ VerdictIsBool
            /\ Passed <=>
                 /\ isTuple
                 /\ Len(pith.items) = N
                 /\ \A i \in 1 .. N :
                      CheckHolds(hint.childs[i], pith.items[i], randomInt)
            /\ isTuple /\ Len(pith.items) # N => ~Passed
            /\ N = 0 => (Passed <=> isTuple /\ Len(pith.items) = 0)

\* The tuple (1, "a") passed the check of tuple[int, str].
C13_Witness ==
    /\ hint = HintTuple(<<HintInstance({"int"}), HintInstance({"str"})>>)
    /\ pith = PyTuple(<<PyInt(1), PyStr(1)>>)
    /\ Passed

\* A longer tuple starting with (1, "a") failed the check of tuple[int, str].
C13_WitnessLonger ==
    /\ hint = HintTuple(<<HintInstance({"int"}), HintInstance({"str"})>>)
    /\ pith = PyTuple(<<PyInt(1), PyStr(1), PyInt(1)>>)
    /\ ~Passed

\* The empty tuple passed the check of the empty tuple hint.
C13_WitnessEmpty ==
    hint = HintTuple(<<>>) /\ pith = PyTuple(<<>>) /\ Passed

\* C14: the union check is true exactly when the pith is an instance of one
\* of the plain classes or satisfies one of the other childs; over plain
\* classes only, exactly when it is an instance of at least one of them.
\* The one isinstance test against all plain classes comes first: when it
\* passes, no other child is checked.
C14_UnionCheck ==
    hint.kind = "union" =>
        LET isPlain == \E t \in hint.types : IsInstanceOf(pith, {t})
        IN  /\ verdict.exc = "none"
            /\ Passed <=>
                 \/ isPlain
                 \/ \E i \in DOMAIN hint.childs :
                      CheckHolds(hint.childs[i], pith, randomInt)
            /\ hint.childs = <<>> => (Passed <=> isPlain)
            /\ isPlain =>
                 /\ verdict.val = PyBool(TRUE)
                 /\ verdict.st.env[2] = Unbound
            /\ (~isPlain /\ hint.childs # <<>>) => verdict.st.env[2] = pith

\* A list of integers passed the check of a union of plain classes it is no
\* instance of and a list hint.
C14_Witness ==
    /\ hint.kind = "union"
    /\ hint.types # {}
    /\ hint.childs # <<>>
    /\ pith = PyList(<<PyInt(1)>>)
    /\ Passed

\* The float 1.0 failed the check of Union[int, str].
C14_WitnessNeither ==
    /\ hint = HintUnion({"int", "str"}, <<>>)
    /\ pith = PyFloat(1)
    /\ ~Passed

\* The literals of the hint.
Literals == {hint.literals[i] : i \in DOMAIN hint.literals}

\* C15: the literal check is true exactly when the pith is an instance of the
\* class of one of the literals and equals one of the literals; when it is no
\* such instance, no == comparison is made.  For Literal[1, "a"], 1 and "a"
\* pass, 2 and "b" fail.
C15_LiteralCheck ==
    hint.kind = "literal" =>
        LET isType == IsInstanceOf(pith, {l.type : l \in Literals})
        IN  /\ VerdictIsBool
            /\ Passed <=> isType /\ \E l \in Literals : PyEq(pith, l)
            /\ ~isType => verdict.st.eqs = 0
            /\ isType => verdict.st.eqs >= 1
            /\ hint = HintLiteral(<<PyInt(1), PyStr(1)>>) =>
                 /\ pith \in {PyInt(1), PyStr(1)} => Passed
                 /\ pith \in {PyInt(2), PyStr(2)} => ~Passed

\* The float 1.0, equal to the literal 1, failed the check of Literal[1, "a"]
\* without any comparison.
C15_Witness ==
    /\ hint = HintLiteral(<<PyInt(1), PyStr(1)>>)
    /\ pith = PyFloat(1)
    /\ ~Passed
    /\ verdict.st.eqs = 0

\* "a" passed the check of Literal[1, "a"] at the second comparison.
C15_WitnessSecond ==
    /\ hint = HintLiteral(<<PyInt(1), PyStr(1)>>)
    /\ pith = PyStr(1)
    /\ Passed
    /\ verdict.st.eqs = 2

\* C18: the sequence, fixed-length tuple and subclass checks end with True or
\* False on every pith: no modulo by zero and no index out of range in the
\* sequence check, no item read of a tuple of another length, no issubclass()
\* of an object that is no class.
C18_ChecksNeverRaise ==
    hint.kind \in {"sequence", "tuple", "subclass"} => VerdictIsBool

\* An empty list passed a sequence check.
C18_Witness ==
    /\ hint.kind = "sequence"
    /\ pith = PyList(<<>>)
    /\ Passed

\* A tuple shorter than the hint failed the fixed-length tuple check.
C18_WitnessShort ==
    /\ hint.kind = "tuple"
    /\ pith.type = "tuple"
    /\ Len(pith.items) < Len(hint.childs)
    /\ VerdictIsBool
    /\ ~Passed

\* An object that is no class failed the subclass check.
C18_WitnessNoClass ==
    /\ hint.kind = "subclass"
    /\ pith = PyInt(1)
    /\ VerdictIsBool
    /\ ~Passed

\* A class passed the check of type[int]: bool.
C18_WitnessClass ==
    /\ hint = HintSubclass({"int"})
    /\ pith = PyClass("bool")
    /\ Passed

\* How often expression x occurs in expression e.
RECURSIVE Count(_, _)
RECURSIVE CountIn(_, _)
CountIn(args, x) ==
    IF args = <<>> THEN 0 ELSE Count(Head(args), x) + CountIn(Tail(args), x)

Count(e, x) == (IF e = x THEN 1 ELSE 0) + CountIn(e.args, x)

\* The assignment expressions in expression e.
RECURSIVE Assigns(_)
Assigns(e) ==
    (IF e.op = "assign" THEN {e} ELSE {})
    \cup UNION {Assigns(e.args[i]) : i \in DOMAIN e.args}

\* What running expression e evaluates first: its leftmost operand without
\* operands, with the assignment expression binding it, if any.
RECURSIVE FirstEvaluated(_)
FirstEvaluated(e) ==
    IF e.args = <<>> THEN e
    ELSE IF e.op = "assign" /\ e.args[1].args = <<>> THEN e
    ELSE FirstEvaluated(e.args[1])

CompositeKinds ==
    {"union", "literal", "generic", "sequence", "tuple", "subclass",
     "annotated"}

C17_WitnessUnion ==
    /\ hint.kind = "union"
    /\ Len(hint.childs) = 2
    /\ pith = PyTuple(<<PyStr(1)>>)
    /\ Passed
    /\ verdict.st.evals = 1

\* ---- placeholders ----
\* sub occurs in s.
Occurs(sub, s) ==
    \E i \in 1 .. (Len(s) - Len(sub) + 1) :
        SubSeq(s, i, i + Len(sub) - 1) = sub

\* The number of places of s where sub occurs.
Occurrences(sub, s) ==
    Cardinality({i \in 1 .. (Len(s) - Len(sub) + 1) :
                   SubSeq(s, i, i + Len(sub) - 1) = sub})

Families == {"child", "forwardref", "root"}

\* The delimiters of a family.
Delimiters(family) ==
    CASE family = "child" ->
           {PEP_CODE_HINT_CHILD_PLACEHOLDER_PREFIX,
            PEP_CODE_HINT_CHILD_PLACEHOLDER_SUFFIX}
      [] family = "forwardref" ->
           {PEP_CODE_HINT_FORWARDREF_UNQUALIFIED_PLACEHOLDER_PREFIX,
            PEP_CODE_HINT_FORWARDREF_UNQUALIFIED_PLACEHOLDER_SUFFIX}
      [] family = "root" -> {PEP_CODE_PITH_ROOT_PARAM_NAME_PLACEHOLDER}

\* The placeholder pieces of a family.
PlaceholderPieces(family) ==
    {piece \in Pieces : piece.family = family}

\* C16: the five delimiters of the three placeholder families differ from
\* each other, no delimiter of a family occurs in a placeholder of another
\* family, and replacing the placeholders in the text of a template gives the
\* text of the template with those pieces replaced: each other placeholder
\* occurs in the text as often as the template holds it.
C16_FamiliesApart ==
    /\ Cardinality(UNION {Delimiters(f) : f \in Families}) = 5
    /\ \A f \in Families :
         \A g \in Families \ {f} :
             \A d \in Delimiters(f), piece \in PlaceholderPieces(g) :
                 ~Occurs(d, PieceText(piece))
    /\ template = Join(pieces)
    /\ \A f \in Families :
         \A piece \in PlaceholderPieces(f) :
             Occurrences(PieceText(piece), template) = Holds(piece)

\* A child placeholder was replaced by code holding a forward reference
\* placeholder, next to a root name placeholder the template still holds.
C16_Witness ==
    /\ Holds(Piece("text", <<"(">>)) > 0
    /\ Holds(Piece("forwardref", <<"A">>)) > 0
    /\ Holds(RootPiece) > 0
    /\ \A id \in ChildIds : Holds(Piece("child", id)) = 0
    /\ Len(pieces) > MaxPieces

\* ---- reference cache ----
\* C19: called side by side, the cache and the reference cache give the same
\* outcome for every call and afterwards hold the same keys with the same
\* values, the dict iterating over its keys in the order of the reference
\* recency list, least recently used first.
C19_RefinesReference ==
    /\ result = refResult
    /\ constructed <=> refCapacity > 0
    /\ constructed => size = refCapacity
    /\ DictKeySeq(items) = refOrder
    /\ \A k \in HashableKeys :
         IF DictHasItem(items, k)
         THEN refMap[k] = DictGetItem(items, k)
         ELSE refMap[k] = NoValue

\* A get moved the least recently used key of a full cache to the end, and
\* a put of an absent key then dropped the next one, in both caches.
C19_Witness ==
    /\ lruRead.stage = "put"
    /\ size >= 2
    /\ Len(refOrder) = refCapacity
    /\ refOrder[Len(refOrder) - 1] = lruRead.key
    /\ refMap[lruRead.next] = NoValue
    /\ DictKeySeq(items) = refOrder

============================================================================
